---- MODULE Spec2Model ----
(***************************************************************************)
(* Verification model of the location-and-media telemetry pipeline:       *)
(*   - getIpLocation           (services/locationService)                 *)
(*   - saveLocationToBackend   (services/locationService)                 *)
(*   - App: startTracking, GPS callbacks, capture interval, cleanup,      *)
(*          admin realtime sync                                           *)
(*   - AdminPanel: processedLogs (de-duplication), devices (grouping)     *)
(* The specifications share the variables:                                *)
(*   SpecIp     - one call of getIpLocation against arbitrary providers   *)
(*   SpecIpLive - SpecIp with the function's own steps scheduled fairly   *)
(*   Spec       - the client route of App (tracking)                      *)
(*   SpecSave   - saveLocationToBackend and its caller                    *)
(*   SpecAdmin  - the admin route of App (bulk fetch + insert channel)    *)
(*   SpecPanel  - AdminPanel over the rows the insert channel delivers    *)
(*   SpecDistance - SpecPanel with rows from places whole degrees apart   *)
(***************************************************************************)
EXTENDS Integers, Sequences, FiniteSets, TLC

VARIABLES
    \* ---- getIpLocation -------------------------------------------------
    ipPc,            \* "idle" | "loop" | "awaitFetch" | "returned"
    ipIndex,         \* index of the provider the for-loop is at (1..3)
    ipRequested,     \* sequence of provider names fetch() was called for
    ipResponses,     \* sequence of the responses those requests got
    ipResult,        \* the returned UserLocation, NULL before the return
    \* ---- App (client route) -------------------------------------------
    mounted,             \* FALSE once the unmount cleanup has run
    deviceId,            \* 'user_' + random suffix, made by the first render
    isAdminRoute,        \* window.location.pathname === '/adm'
    permissionState,     \* 'idle' | 'tracking' | 'denied'
    location,            \* UserLocation or NULL
    currentIp,           \* '' until the IP lookup stores an ip
    logs,                \* LogEntry list (newest first)
    watchIdRef,          \* NULL or a watch id (0 when geolocation is missing)
    captureIntervalRef,  \* NULL or an interval id
    streamRef,           \* NULL or a MediaStream id
    geoSupported,        \* navigator.geolocation exists
    ipFetch,             \* "none" | "pending" | "done": the IP fetch effect
    starts,              \* startTracking calls awaiting getUserMedia
    watches,             \* active watchPosition subscriptions (with closure)
    timers,              \* active setInterval timers (with closure)
    streams,             \* MediaStreams whose tracks are live
    nextId,              \* allocator of watch / timer / stream / call ids
    lastFix,             \* the latest position a GPS callback received
    fixClock,            \* number of GPS fixes delivered so far
    saves,               \* saveLocationToBackend calls awaiting the insert
    entries,             \* every LogEntry object created, by id
    insertCount,         \* id -> number of remote inserts issued for it
    localWrite,          \* id -> state of the /api/capture request
    lastEvent,           \* what the last step did (observation only)
    \* ---- remote store and App (admin route) ---------------------------
    user_locations,      \* rows of the remote table, in insertion order
    channel,             \* "none" | "joining" | "subscribed" | "removed"
    notifications,       \* INSERT payloads in flight to the subscriber
    fetchHistory         \* the bulk fetch: [pc, data]

ipVars == <<ipPc, ipIndex, ipRequested, ipResponses, ipResult>>
appVars == <<mounted, deviceId, isAdminRoute, permissionState, location, currentIp, logs, watchIdRef,
             captureIntervalRef, streamRef, geoSupported, ipFetch, starts,
             watches, timers, streams, nextId, lastFix, fixClock, saves,
             entries, insertCount, localWrite, lastEvent>>
adminVars == <<user_locations, channel, notifications, fetchHistory>>
vars == <<ipVars, appVars, adminVars>>

NULL == [null |-> TRUE]
\* null in a ref that otherwise holds a numeric id
NullRef == -1

(***************************************************************************)
(* JavaScript values as far as getIpLocation distinguishes them.          *)
(* A value is <<type, text>>; numbers keep their decimal text so that     *)
(* NaN and Infinity are numbers that are not finite.                      *)
(***************************************************************************)
JsNum(t) == <<"number", t>>
JsStr(t) == <<"string", t>>
JsUndefined == <<"undefined", "">>
NaN == JsNum("NaN")
Infinity == JsNum("Infinity")

typeof(v) == v[1]
isNaN(v) == v = NaN
IsFiniteNumber(v) == typeof(v) = "number" /\ v[2] \notin {"NaN", "Infinity"}

\* the decimal texts parseFloat can read
NumericTexts == {"-6.2", "106.8", "48.1", "11.5", "Infinity"}

parseFloat(v) ==
    CASE typeof(v) = "number" -> v
      [] typeof(v) = "string" -> IF v[2] \in NumericTexts THEN JsNum(v[2]) ELSE NaN
      [] OTHER -> NaN

\* the list in another order
providers_reordered == <<"ipapi.co", "geojs.io", "ipwho.is">>

providers == <<"geojs.io", "ipapi.co", "ipwho.is">>

THROWN == [thrown |-> TRUE]
CONTINUE == [continue |-> TRUE]

\* provider.transform(data); THROWN when the extractor throws
transform(name, data) ==
    CASE name = "geojs.io" ->
           [lat |-> parseFloat(data.latitude), lng |-> parseFloat(data.longitude), ip |-> data.ip]
      [] name = "ipapi.co" ->
           [lat |-> data.latitude, lng |-> data.longitude, ip |-> data.ip]
      [] OTHER ->
           IF ~data.success THEN THROWN
           ELSE [lat |-> data.latitude, lng |-> data.longitude, ip |-> data.ip]

\* the acceptance test of line 67
validInfo(info) ==
    /\ typeof(info.lat) = "number" /\ typeof(info.lng) = "number"
    /\ ~isNaN(info.lat) /\ ~isNaN(info.lng)

IpLocation(info) ==
    [lat |-> info.lat, lng |-> info.lng, accuracy |-> 5000, source |-> "ip", ip |-> info.ip]

FallbackLocation ==
    [lat |-> JsNum("-6.2088"), lng |-> JsNum("106.8456"), accuracy |-> 10000,
     source |-> "ip", ip |-> "127.0.0.1"]

\* What one provider request can come back with.
RawLat == {JsNum("-6.2"), JsNum("Infinity"), JsStr("48.1"), JsStr("abc"), JsUndefined}
RawLng == {JsNum("106.8"), JsStr("11.5"), JsStr("Infinity"), JsUndefined}
ProviderData ==
    [latitude : RawLat, longitude : RawLng, ip : {"203.0.113.7"}, success : BOOLEAN]
ProviderResponses ==
    {[kind |-> "network_error"], [kind |-> "not_ok"], [kind |-> "bad_json"], [kind |-> "null_body"]}
    \cup {[kind |-> "json", data |-> d] : d \in ProviderData}

\* outcome of the try block of one loop iteration: CONTINUE or a location
ProcessResponse(name, r) ==
    IF r.kind # "json" THEN CONTINUE
    ELSE LET info == transform(name, r.data) IN
         IF info = THROWN THEN CONTINUE
         ELSE IF validInfo(info) THEN IpLocation(info) ELSE CONTINUE

IpInit ==
    /\ ipPc = "idle" /\ ipIndex = 1 /\ ipRequested = <<>> /\ ipResponses = <<>>
    /\ ipResult = NULL

\* getIpLocation() is called
IpCall ==
    /\ ipPc = "idle"
    /\ ipPc' = "loop"
    /\ UNCHANGED <<ipIndex, ipRequested, ipResponses, ipResult>>
    /\ UNCHANGED <<appVars, adminVars>>

\* top of the for loop: fetch(provider.url), or the fallback after the loop
IpRequest ==
    /\ ipPc = "loop"
    /\ IF ipIndex <= Len(providers)
       THEN /\ ipRequested' = Append(ipRequested, providers[ipIndex])
            /\ ipPc' = "awaitFetch"
            /\ UNCHANGED ipResult
       ELSE /\ ipResult' = FallbackLocation
            /\ ipPc' = "returned"
            /\ UNCHANGED ipRequested
    /\ UNCHANGED <<ipIndex, ipResponses>>
    /\ UNCHANGED <<appVars, adminVars>>

\* the awaited request settles and the rest of the iteration runs
IpResponse ==
    /\ ipPc = "awaitFetch"
    /\ \E r \in ProviderResponses :
         LET out == ProcessResponse(providers[ipIndex], r) IN
         /\ ipResponses' = Append(ipResponses, r)
         /\ IF out = CONTINUE
            THEN /\ ipIndex' = ipIndex + 1 /\ ipPc' = "loop" /\ UNCHANGED ipResult
            ELSE /\ ipResult' = out /\ ipPc' = "returned" /\ UNCHANGED ipIndex
    /\ UNCHANGED ipRequested
    /\ UNCHANGED <<appVars, adminVars>>

(***************************************************************************)
(* Values of the App and remote-store variables before anything happened. *)
(***************************************************************************)
AppIdle ==
    /\ mounted = TRUE /\ deviceId = "user_a" /\ isAdminRoute = FALSE /\ permissionState = "idle" /\ location = NULL
    /\ currentIp = "" /\ logs = <<>>
    /\ watchIdRef = NullRef /\ captureIntervalRef = NullRef /\ streamRef = NullRef
    /\ geoSupported = TRUE /\ ipFetch = "none"
    /\ starts = {} /\ watches = {} /\ timers = {} /\ streams = {}
    /\ nextId = 1 /\ lastFix = NULL /\ fixClock = 0
    /\ saves = {} /\ entries = <<>> /\ insertCount = <<>> /\ localWrite = <<>>
    /\ lastEvent = [type |-> "init"]

AdminIdle ==
    /\ user_locations = <<>> /\ channel = "none" /\ notifications = <<>>
    /\ fetchHistory = [pc |-> "idle"]

(***************************************************************************)
(* SpecIp: one call of getIpLocation, every provider answering anything.  *)
(***************************************************************************)
InitIp == IpInit /\ AppIdle /\ AdminIdle

NextIp == IpCall \/ IpRequest \/ IpResponse

SpecIp == InitIp /\ [][NextIp]_vars

\* a provider yields valid coordinates: successful response, readable body,
\* extractor returns, and lat and lng are both finite numbers
YieldsValid(name, r) ==
    /\ r.kind = "json"
    /\ transform(name, r.data) # THROWN
    /\ IsFiniteNumber(transform(name, r.data).lat)
    /\ IsFiniteNumber(transform(name, r.data).lng)

\* C8: providers are contacted one at a time in the order geojs.io, ipapi.co,
\* ipwho.is; a provider is requested only after every earlier one completed
\* without valid coordinates; nothing is requested after one yielded valid
\* coordinates; the result is that provider's lat/lng/ip with source 'ip' and
\* accuracy 5000.
C8_SequentialFirstValidWins ==
    /\ ipRequested = SubSeq(<<"geojs.io", "ipapi.co", "ipwho.is">>, 1, Len(ipRequested))
    /\ Len(ipRequested) - Len(ipResponses) \in {0, 1}
    /\ \A i \in 1..Len(ipRequested) : \A j \in 1..(i - 1) :
           ~YieldsValid(ipRequested[j], ipResponses[j])
    /\ \A i \in 1..Len(ipResponses) :
           YieldsValid(ipRequested[i], ipResponses[i]) =>
              /\ Len(ipRequested) = i
              /\ ipPc = "returned"
              /\ ipResult = [lat |-> transform(ipRequested[i], ipResponses[i].data).lat,
                             lng |-> transform(ipRequested[i], ipResponses[i].data).lng,
                             ip |-> ipResponses[i].data.ip,
                             accuracy |-> 5000, source |-> "ip"]

\* witness of C8: the first provider failed, the second yielded valid
\* coordinates and the call returned them
C8_Witness ==
    /\ ipPc = "returned" /\ Len(ipResponses) = 2
    /\ ~YieldsValid(ipRequested[1], ipResponses[1])
    /\ YieldsValid(ipRequested[2], ipResponses[2])
    /\ ipResult.accuracy = 5000

\* C9: getIpLocation never returns null, and when every provider failed
\* (non-OK response, network exception, extractor throws, invalid
\* coordinates) it returns exactly the fallback position.
C9_FallbackWhenAllFail ==
    ipPc = "returned" =>
       /\ ipResult # NULL
       /\ (/\ Len(ipResponses) = Len(providers)
           /\ \A i \in 1..Len(providers) : ~YieldsValid(providers[i], ipResponses[i]))
          => ipResult = FallbackLocation

\* C10: the position returned always has finite lat and lng.
C10_ResultFinite ==
    ipPc = "returned" => IsFiniteNumber(ipResult.lat) /\ IsFiniteNumber(ipResult.lng)

(***************************************************************************)
(* App, client route: startTracking, the GPS callbacks, the capture       *)
(* interval, the unmount cleanup, and saveLocationToBackend.              *)
(***************************************************************************)
MaxStarts == 2     \* startTracking calls in one run
MaxFix == 2        \* GPS fixes delivered in one run
MaxRecords == 3    \* LogEntry objects created in one run
MaxSaves == 2      \* saves followed to their end in one run of SpecSave
LogLimit == 50     \* newLogs.slice(0, 50)

UNDEFINED == "undefined"
DeviceIds == {"user_a"}
DeviceInfo == "deviceInfo"
\* the coordinates the receiver reports, fix after fix
GpsTrack == <<[lat |-> JsNum("-6.2"), lng |-> JsNum("106.8")],
              [lat |-> JsNum("48.1"), lng |-> JsNum("11.5")]>>
GpsCoords(n) == GpsTrack[((n - 1) % Len(GpsTrack)) + 1]
\* setLocation({lat, lng, accuracy: 0, source: 'ip'}) of the ?target= link
TargetLocation == [lat |-> JsNum("48.1"), lng |-> JsNum("11.5"), accuracy |-> 0, source |-> "ip"]
\* what getIpLocation can resolve to
IpResults == {IpLocation([lat |-> JsNum("-6.2"), lng |-> JsNum("106.8"), ip |-> "203.0.113.7"])}

\* the state a render's closures see (handleDataCapture's dependencies)
Render == [permissionState |-> permissionState, currentIp |-> currentIp]

isSupabaseConfigured == TRUE

\* ip_address: currentIp || location.ip || 'Unknown'
IpAddress(loc, ip) ==
    IF ip # "" THEN ip
    ELSE IF "ip" \in DOMAIN loc /\ loc.ip # "" THEN loc.ip ELSE "Unknown"

EntryDeviceId_perRecord == IF entries = <<>> THEN deviceId ELSE "user_b"

\* the deviceId argument handleDataCapture passes to saveLocationToBackend:
\* the deviceId state of App, which has no setter
EntryDeviceId == deviceId

NewEntry_bornSynced(loc, imageData, ip) ==
    [id |-> Len(entries) + 1,
     latitude |-> loc.lat, longitude |-> loc.lng,
     device_id |-> deviceId,
     ip_address |-> IpAddress(loc, ip),
     image_data |-> imageData,
     device_info |-> DeviceInfo,
     created_at |-> Len(entries) + 1,
     status |-> "synced"]

\* the LogEntry literal at the top of saveLocationToBackend
NewEntry(loc, imageData, ip) ==
    [id |-> Len(entries) + 1,
     latitude |-> loc.lat, longitude |-> loc.lng,
     device_id |-> EntryDeviceId,
     ip_address |-> IpAddress(loc, ip),
     image_data |-> imageData,
     device_info |-> DeviceInfo,
     created_at |-> Len(entries) + 1,
     status |-> "local_simulation"]

\* remote inserts saveLocationToBackend issues for one entry
InsertsPerSave == IF isSupabaseConfigured THEN 1 ELSE 0

\* saveLocationToBackend up to its await: the entry is built, the
\* /api/capture request is fired and not awaited, the insert is issued
SaveLocationToBackend(loc, imageData, ip) ==
    /\ entries' = Append(entries, NewEntry(loc, imageData, ip))
    /\ localWrite' = Append(localWrite, "pending")
    /\ insertCount' = Append(insertCount, InsertsPerSave)
    /\ saves' = saves \cup {Len(entries) + 1}

\* captureImage(): a frame when the video element is there (videoRef is set
\* while mounted) and the stream in streamRef is active; the video is taken
\* to have produced a picture (videoWidth > 0) whenever its stream is live
CaptureImage ==
    IF mounted /\ streamRef # NullRef /\ streamRef \in streams
    THEN "data:image/jpeg" ELSE UNDEFINED

\* the location the interval callback hands to handleDataCapture
TickLocation(t) == location

\* handleDataCapture(loc, true) as called by the closures of render r;
\* cell is the value of the location state when it is called
HandleDataCapture(cell, loc, r, img) ==
    /\ location' = IF r.permissionState = "tracking" THEN loc ELSE cell
    /\ IF loc.source = "gps" \/ img # UNDEFINED
       THEN SaveLocationToBackend(loc, img, r.currentIp)
       ELSE UNCHANGED <<entries, localWrite, insertCount, saves>>

InitApp ==
    /\ mounted = TRUE
    /\ deviceId \in DeviceIds
    /\ isAdminRoute = FALSE
    /\ permissionState = "idle"
    /\ location \in {NULL, TargetLocation}
    /\ currentIp = "" /\ logs = <<>>
    /\ watchIdRef = NullRef /\ captureIntervalRef = NullRef /\ streamRef = NullRef
    /\ geoSupported \in BOOLEAN
    /\ ipFetch = "pending"
    /\ starts = {} /\ watches = {} /\ timers = {} /\ streams = {}
    /\ nextId = 1 /\ lastFix = NULL /\ fixClock = 0
    /\ saves = {} /\ entries = <<>> /\ insertCount = <<>> /\ localWrite = <<>>
    /\ lastEvent = [type |-> "init"]

\* setLocation(ipLoc)
IpSetLocation_overwrite(prev, ipLoc) == ipLoc

\* setLocation(prev => prev ? prev : ipLoc)
IpSetLocation(prev, ipLoc) == IF prev # NULL THEN prev ELSE ipLoc

\* the IP fetch effect continues after `await getIpLocation()`
IpResolved ==
    /\ ipFetch = "pending"
    /\ \E ipLoc \in IpResults :
         /\ location' = IpSetLocation(location, ipLoc)
         /\ currentIp' = IF ipLoc.ip # "" THEN ipLoc.ip ELSE currentIp
    /\ ipFetch' = "done"
    /\ lastEvent' = [type |-> "ipResolved"]
    /\ UNCHANGED <<mounted, deviceId, isAdminRoute, permissionState, logs, watchIdRef, captureIntervalRef,
                   streamRef, geoSupported, starts, watches, timers, streams, nextId,
                   lastFix, fixClock, saves, entries, insertCount, localWrite>>
    /\ UNCHANGED <<ipVars, adminVars>>

\* the action button's onClick: startTracking() runs up to `await getUserMedia`
StartTracking ==
    /\ mounted
    /\ permissionState # "tracking"
    /\ nextId <= MaxStarts
    /\ starts' = starts \cup {[id |-> nextId, render |-> Render]}
    /\ nextId' = nextId + 1
    /\ lastEvent' = [type |-> "startTracking"]
    /\ UNCHANGED <<mounted, deviceId, isAdminRoute, permissionState, location, currentIp, logs, watchIdRef,
                   captureIntervalRef, streamRef, geoSupported, ipFetch, watches, timers,
                   streams, lastFix, fixClock, saves, entries, insertCount, localWrite>>
    /\ UNCHANGED <<ipVars, adminVars>>

\* a failed camera treated as a denial
StateAfterStart_cameraRequired(cameraOk) == IF cameraOk THEN "tracking" ELSE "denied"

\* permissionState after part B of startTracking (the error callback can run
\* inside getBrowserLocation, with code 0, when geolocation is missing)
StateAfterStart(cameraOk) == "tracking"

\* getUserMedia settles and startTracking runs to its end
CameraSettled(s, cameraOk) ==
    /\ s \in starts
    /\ starts' = starts \ {s}
    /\ IF cameraOk
       THEN /\ streamRef' = s.id
            /\ streams' = streams \cup {s.id}
       ELSE UNCHANGED <<streamRef, streams>>
    /\ permissionState' = StateAfterStart(cameraOk)
    /\ IF geoSupported
       THEN /\ watches' = watches \cup {[id |-> s.id, render |-> s.render]}
            /\ watchIdRef' = s.id
       ELSE /\ watchIdRef' = 0
            /\ UNCHANGED watches
    /\ timers' = {t \in timers : t.id # captureIntervalRef}
                    \cup {[id |-> s.id, render |-> s.render]}
    /\ captureIntervalRef' = s.id
    /\ lastEvent' = [type |-> "started", camera |-> cameraOk]
    /\ UNCHANGED <<mounted, deviceId, isAdminRoute, location, currentIp, logs, geoSupported, ipFetch, nextId,
                   lastFix, fixClock, saves, entries, insertCount, localWrite>>
    /\ UNCHANGED <<ipVars, adminVars>>

\* a stale cell: the first GPS position is kept (prev ? prev : loc)
GpsSetLocation_keepFirst(prev, loc) ==
    IF prev # NULL /\ prev.source = "gps" THEN prev ELSE loc

\* the location state after the GPS callback's setLocation(loc)
GpsSetLocation(prev, loc) == loc

\* watchPosition's success callback of subscription w
GpsFix(w) ==
    /\ w \in watches
    /\ fixClock < MaxFix
    /\ Len(entries) < MaxRecords
    /\ LET c == GpsCoords(fixClock + 1)
           loc == [lat |-> c.lat, lng |-> c.lng, accuracy |-> 10,
                   timestamp |-> fixClock + 1, source |-> "gps"] IN
       \* setLocation(loc); handleDataCapture(loc, true)
       /\ lastFix' = loc
       /\ HandleDataCapture(GpsSetLocation(location, loc), loc, w.render, CaptureImage)
    /\ fixClock' = fixClock + 1
    /\ lastEvent' = [type |-> "gpsFix", submitted |-> TRUE]
    /\ UNCHANGED <<mounted, deviceId, isAdminRoute, permissionState, currentIp, logs, watchIdRef,
                   captureIntervalRef, streamRef, geoSupported, ipFetch, starts, watches,
                   timers, streams, nextId>>
    /\ UNCHANGED <<ipVars, adminVars>>

\* every location error treated as fatal
IsFatal_anyError(code) == TRUE

\* does the error callback treat this code as fatal
IsFatal(code) == code = 1

\* watchPosition's error callback of subscription w
GeoError(w, code) ==
    /\ w \in watches
    \* if (err.code === 1) { alert(...); setPermissionState('denied') }
    /\ permissionState' = IF IsFatal(code) THEN "denied" ELSE permissionState
    /\ lastEvent' = [type |-> "geoError", code |-> code, alert |-> IsFatal(code)]
    /\ UNCHANGED <<mounted, deviceId, isAdminRoute, location, currentIp, logs, watchIdRef, captureIntervalRef,
                   streamRef, geoSupported, ipFetch, starts, watches, timers, streams, nextId,
                   lastFix, fixClock, saves, entries, insertCount, localWrite>>
    /\ UNCHANGED <<ipVars, adminVars>>

TickEmits_onlyWhenMoved(currentLoc) ==
    /\ currentLoc # NULL /\ currentLoc.source = "gps"
    /\ entries = <<>> \/ entries[Len(entries)].latitude # currentLoc.lat

\* if (currentLoc && currentLoc.source === 'gps')
TickEmits(currentLoc) == currentLoc # NULL /\ currentLoc.source = "gps"

\* the setInterval callback of timer t: setLocation(currentLoc => ...)
Tick(t) ==
    /\ t \in timers
    /\ Len(entries) < MaxRecords
    /\ \E runs \in (IF mounted THEN {TRUE} ELSE BOOLEAN) :
         IF runs /\ TickEmits(TickLocation(t))
         THEN /\ HandleDataCapture(location, TickLocation(t), t.render, CaptureImage)
              /\ lastEvent' = [type |-> "tick", submitted |-> TRUE]
         ELSE /\ lastEvent' = [type |-> "tick", submitted |-> FALSE]
              /\ UNCHANGED <<location, entries, localWrite, insertCount, saves>>
    /\ UNCHANGED <<mounted, deviceId, isAdminRoute, permissionState, currentIp, logs, watchIdRef,
                   captureIntervalRef, streamRef, geoSupported, ipFetch, starts, watches,
                   timers, streams, nextId, lastFix, fixClock>>
    /\ UNCHANGED <<ipVars, adminVars>>

\* the row the insert of an entry stores (id and created_at come from the table)
Row(e) ==
    [id |-> Len(user_locations) + 1,
     latitude |-> e.latitude, longitude |-> e.longitude,
     device_id |-> e.device_id, ip_address |-> e.ip_address,
     image_data |-> IF e.image_data = UNDEFINED THEN "null" ELSE e.image_data,
     device_info |-> e.device_info,
     created_at |-> Len(user_locations) + 1]

\* the error result of the insert not looked at
StatusAfterInsert_ignoreError(status, outcome) ==
    IF outcome \in {"ok", "error"} THEN "synced" ELSE status

\* status of an entry after its insert settled with this outcome
StatusAfterInsert(status, outcome) == IF outcome = "ok" THEN "synced" ELSE status

Caught_onlyErrorResults(outcome) == outcome # "throw"

\* saveLocationToBackend goes on to `return newEntry` after this outcome of
\* the insert: an error result is tested by `if (!error)`, an exception is
\* taken by `catch (err)`
Caught(outcome) == outcome \in {"ok", "error", "throw"}

\* the awaited insert of entry id settles; saveLocationToBackend returns the
\* entry and handleDataCapture prepends it to logs
InsertSettled(id, outcome) ==
    /\ id \in saves
    /\ saves' = saves \ {id}
    /\ entries' = [entries EXCEPT ![id].status = StatusAfterInsert(@, outcome)]
    /\ user_locations' = IF outcome = "ok" THEN Append(user_locations, Row(entries[id]))
                         ELSE user_locations
    /\ logs' = IF isAdminRoute \/ ~Caught(outcome) THEN logs
               ELSE LET newLogs == <<entries'[id]>> \o logs
                    IN SubSeq(newLogs, 1, IF Len(newLogs) < LogLimit THEN Len(newLogs) ELSE LogLimit)
    /\ lastEvent' = [type |-> "insertSettled", entry |-> id, outcome |-> outcome]
    /\ UNCHANGED <<mounted, deviceId, isAdminRoute, permissionState, location, currentIp, watchIdRef,
                   captureIntervalRef, streamRef, geoSupported, ipFetch, starts, watches,
                   timers, streams, nextId, lastFix, fixClock, insertCount, localWrite>>
    /\ UNCHANGED <<ipVars, channel, notifications, fetchHistory>>

\* the un-awaited fetch('/api/capture') of entry id settles; a rejection is
\* logged by its .catch and nothing else happens
LocalWriteSettled(id, outcome) ==
    /\ id \in 1..Len(localWrite)
    /\ localWrite[id] = "pending"
    /\ localWrite' = [localWrite EXCEPT ![id] = outcome]
    /\ lastEvent' = [type |-> "localWriteSettled", entry |-> id, outcome |-> outcome]
    /\ UNCHANGED <<mounted, deviceId, isAdminRoute, permissionState, location, currentIp, logs, watchIdRef,
                   captureIntervalRef, streamRef, geoSupported, ipFetch, starts, watches,
                   timers, streams, nextId, lastFix, fixClock, saves, entries, insertCount>>
    /\ UNCHANGED <<ipVars, adminVars>>

\* the cleanup of the last effect (unmount)
Cleanup ==
    \* navigator.geolocation.clearWatch(...) with navigator.geolocation
    \* undefined raises a TypeError, which ends the cleanup at its first line
    /\ LET raises == watchIdRef # NullRef /\ ~geoSupported IN
         /\ watches' = IF watchIdRef # NullRef /\ ~raises
                       THEN {w \in watches : w.id # watchIdRef} ELSE watches
         /\ timers' = IF captureIntervalRef \notin {NullRef, 0} /\ ~raises
                      THEN {t \in timers : t.id # captureIntervalRef} ELSE timers
         /\ streams' = IF streamRef # NullRef /\ ~raises
                       THEN streams \ {streamRef} ELSE streams
         /\ lastEvent' = [type |-> "cleanup", raised |-> raises]
    /\ mounted' = FALSE
    /\ UNCHANGED <<deviceId, isAdminRoute, permissionState, location, currentIp, logs, watchIdRef,
                   captureIntervalRef, streamRef, geoSupported, ipFetch, starts, nextId,
                   lastFix, fixClock, saves, entries, insertCount, localWrite>>
    /\ UNCHANGED <<ipVars, adminVars>>

(***************************************************************************)
(* Spec: the client route from the first render on.  The continuations of *)
(* saveLocationToBackend (InsertSettled, LocalWriteSettled) touch none of *)
(* the tracking state and are explored in SpecSave below.                 *)
(***************************************************************************)
Init == IpInit /\ InitApp /\ AdminIdle

Next ==
    \/ IpResolved
    \/ StartTracking
    \/ \E s \in starts, cameraOk \in BOOLEAN : CameraSettled(s, cameraOk)
    \/ \E w \in watches : GpsFix(w)
    \/ \E w \in watches, code \in {1, 2, 3} : GeoError(w, code)
    \/ \E t \in timers : Tick(t)
    \/ Cleanup

Spec == Init /\ [][Next]_vars

(***************************************************************************)
(* SpecSave: saveLocationToBackend and its caller.  It starts in the      *)
(* state of Spec right after the first startTracking call has finished    *)
(* (geolocation present, camera granted or not) and follows every save    *)
(* through the insert and the local write.                                *)
(***************************************************************************)
InitSave ==
    /\ IpInit /\ AdminIdle
    /\ mounted = TRUE
    /\ deviceId \in DeviceIds
    /\ isAdminRoute = FALSE
    /\ permissionState = "tracking"
    /\ location = NULL
    /\ currentIp = "" /\ logs = <<>>
    /\ geoSupported = TRUE
    /\ ipFetch = "pending"
    /\ starts = {}
    /\ watches = {[id |-> 1, render |-> [permissionState |-> "idle", currentIp |-> ""]]}
    /\ timers = watches
    /\ watchIdRef = 1 /\ captureIntervalRef = 1
    /\ \E cameraOk \in BOOLEAN :
         /\ streamRef = IF cameraOk THEN 1 ELSE NullRef
         /\ streams = IF cameraOk THEN {1} ELSE {}
         /\ lastEvent = [type |-> "started", camera |-> cameraOk]
    /\ nextId = 2 /\ lastFix = NULL /\ fixClock = 0
    /\ saves = {} /\ entries = <<>> /\ insertCount = <<>> /\ localWrite = <<>>

NextSave ==
    \/ Len(entries) < MaxSaves
         /\ \E w \in watches : GpsFix(w)
    \/ Len(entries) < MaxSaves
         /\ \E t \in timers : Tick(t)
    \/ \E id \in saves, outcome \in {"ok", "error", "throw"} : InsertSettled(id, outcome)
    \/ \E id \in 1..Len(localWrite), outcome \in {"ok", "failed"} : LocalWriteSettled(id, outcome)

SpecSave == InitSave /\ [][NextSave]_vars

\* the initial states of SpecSave are states of Spec
SaveStartReached ==
    /\ permissionState = "tracking" /\ location = NULL /\ currentIp = "" /\ ipFetch = "pending"
    /\ starts = {} /\ timers = watches /\ watchIdRef = 1 /\ captureIntervalRef = 1
    /\ watches = {[id |-> 1, render |-> [permissionState |-> "idle", currentIp |-> ""]]}
    /\ nextId = 2 /\ entries = <<>> /\ mounted /\ geoSupported
    /\ lastEvent.type = "started"

(***************************************************************************)
(* App, admin route: the realtime sync effect.  fetchHistory() sends the  *)
(* bulk select, the channel subscribes to INSERT events; the table is     *)
(* written by the inserts of other clients' saveLocationToBackend.        *)
(***************************************************************************)
MaxRows == 2        \* rows inserted into user_locations in one run
FetchLimit == 100   \* .limit(100)

\* entries other devices save (what their inserts carry)
RemoteEntries ==
    {[latitude |-> JsNum("-6.2"), longitude |-> JsNum("106.8"), device_id |-> "user_b",
      ip_address |-> "203.0.113.7", image_data |-> img, device_info |-> DeviceInfo]
        : img \in {"data:image/jpeg", UNDEFINED}}

\* everything of the App state but logs
trackVars == <<mounted, deviceId, isAdminRoute, permissionState, location, currentIp,
               watchIdRef, captureIntervalRef, streamRef, geoSupported, ipFetch, starts,
               watches, timers, streams, nextId, lastFix, fixClock, saves, entries,
               insertCount, localWrite>>

Reverse(seq) == [i \in 1..Len(seq) |-> seq[Len(seq) + 1 - i]]

\* select('*').order('created_at', {ascending: false}).limit(100); the table
\* stamps created_at at insertion, so insertion order is created_at order
SelectHistory ==
    LET desc == Reverse(user_locations)
    IN SubSeq(desc, 1, IF Len(desc) < FetchLimit THEN Len(desc) ELSE FetchLimit)

\* data.map(item => ({...item, status: 'synced'}))
MappedLogs(data) ==
    [i \in 1..Len(data) |->
        [id |-> data[i].id, latitude |-> data[i].latitude, longitude |-> data[i].longitude,
         device_id |-> data[i].device_id, ip_address |-> data[i].ip_address,
         image_data |-> data[i].image_data, device_info |-> data[i].device_info,
         created_at |-> data[i].created_at, status |-> "synced"]]

\* the LogEntry the INSERT handler builds from payload.new
NewLog(newRecord) ==
    [id |-> newRecord.id, latitude |-> newRecord.latitude, longitude |-> newRecord.longitude,
     device_id |-> newRecord.device_id, ip_address |-> newRecord.ip_address,
     image_data |-> newRecord.image_data, device_info |-> newRecord.device_info,
     created_at |-> newRecord.created_at, status |-> "synced"]

\* logs after the bulk fetch answered with data
LogsAfterFetch(data) == MappedLogs(data)

\* logs after an INSERT notification: setLogs(prev => [newLog, ...prev])
LogsAfterInsert(newLog) == <<newLog>> \o logs

InitAdmin ==
    /\ IpInit
    /\ mounted = TRUE /\ deviceId \in DeviceIds /\ isAdminRoute = TRUE
    /\ permissionState = "idle" /\ location = NULL /\ currentIp = "" /\ logs = <<>>
    /\ watchIdRef = NullRef /\ captureIntervalRef = NullRef /\ streamRef = NullRef
    /\ geoSupported = TRUE /\ ipFetch = "none"
    /\ starts = {} /\ watches = {} /\ timers = {} /\ streams = {}
    /\ nextId = 1 /\ lastFix = NULL /\ fixClock = 0
    /\ saves = {} /\ entries = <<>> /\ insertCount = <<>> /\ localWrite = <<>>
    /\ lastEvent = [type |-> "init"]
    /\ user_locations = <<>> /\ channel = "none" /\ notifications = <<>>
    /\ fetchHistory = [pc |-> "idle"]

\* the effect body: fetchHistory() is called and the channel subscribes
AdminSyncEffect ==
    /\ isAdminRoute
    /\ fetchHistory.pc = "idle" /\ channel = "none"
    /\ fetchHistory' = [pc |-> "sent"]
    /\ channel' = "joining"
    /\ lastEvent' = [type |-> "adminEffect"]
    /\ UNCHANGED <<logs, user_locations, notifications>>
    /\ UNCHANGED <<ipVars, trackVars>>

\* the realtime server registered the subscription
ChannelJoined ==
    /\ channel = "joining"
    /\ channel' = "subscribed"
    /\ lastEvent' = [type |-> "channelJoined"]
    /\ UNCHANGED <<logs, user_locations, notifications, fetchHistory>>
    /\ UNCHANGED <<ipVars, trackVars>>

\* another device's insert succeeds; subscribers are sent the new row
RemoteInsert(e) ==
    /\ Len(user_locations) < MaxRows
    /\ user_locations' = Append(user_locations, Row(e))
    /\ notifications' = IF channel = "subscribed" THEN Append(notifications, Row(e))
                        ELSE notifications
    /\ lastEvent' = [type |-> "remoteInsert"]
    /\ UNCHANGED <<logs, channel, fetchHistory>>
    /\ UNCHANGED <<ipVars, trackVars>>

\* the table answers the select of fetchHistory (data), or fails (no data)
SelectAnswered(ok) ==
    /\ fetchHistory.pc = "sent"
    /\ fetchHistory' = IF ok THEN [pc |-> "answered", data |-> SelectHistory]
                       ELSE [pc |-> "failed"]
    /\ lastEvent' = [type |-> "selectAnswered"]
    /\ UNCHANGED <<logs, user_locations, channel, notifications>>
    /\ UNCHANGED <<ipVars, trackVars>>

\* fetchHistory continues after its await: if (data) setLogs(mappedLogs)
FetchApplied ==
    /\ fetchHistory.pc \in {"answered", "failed"}
    /\ logs' = IF fetchHistory.pc = "answered" THEN LogsAfterFetch(fetchHistory.data) ELSE logs
    /\ fetchHistory' = [pc |-> "done"]
    /\ lastEvent' = [type |-> "fetchApplied"]
    /\ UNCHANGED <<user_locations, channel, notifications>>
    /\ UNCHANGED <<ipVars, trackVars>>

\* the channel's INSERT handler runs for the oldest notification in flight
InsertNotified ==
    /\ channel = "subscribed"
    /\ notifications # <<>>
    /\ logs' = LogsAfterInsert(NewLog(Head(notifications)))
    /\ notifications' = Tail(notifications)
    /\ lastEvent' = [type |-> "insertNotified", id |-> Head(notifications).id]
    /\ UNCHANGED <<user_locations, channel, fetchHistory>>
    /\ UNCHANGED <<ipVars, trackVars>>

\* the effect's cleanup: supabase.removeChannel(channel)
RemoveChannel ==
    /\ channel \in {"joining", "subscribed"}
    /\ channel' = "removed"
    /\ lastEvent' = [type |-> "removeChannel"]
    /\ UNCHANGED <<logs, user_locations, notifications, fetchHistory>>
    /\ UNCHANGED <<ipVars, trackVars>>

NextAdmin ==
    \/ AdminSyncEffect
    \/ ChannelJoined
    \/ \E e \in RemoteEntries : RemoteInsert(e)
    \/ \E ok \in BOOLEAN : SelectAnswered(ok)
    \/ FetchApplied
    \/ InsertNotified
    \/ RemoveChannel

SpecAdmin == InitAdmin /\ [][NextAdmin]_vars

\* C7: the logs list never contains two entries with the same id, and every
\* row of the table that is shown there is shown with status 'synced'.
C7_NoDuplicateRows ==
    /\ \A i, j \in 1..Len(logs) : i # j => logs[i].id # logs[j].id
    /\ \A i \in 1..Len(logs) : logs[i].status = "synced"

(***************************************************************************)
(* Claims about the client route (Spec) and the save pipeline (SpecSave). *)
(***************************************************************************)
LastEntry == entries[Len(entries)]

\* C1: a snapshot submitted by a timer tick carries the position of the most
\* recent GPS update received before the tick, never an older one.
C1_TickCarriesLatestFix ==
    (lastEvent.type = "tick" /\ lastEvent.submitted) =>
        /\ lastFix # NULL
        /\ LastEntry.latitude = lastFix.lat
        /\ LastEntry.longitude = lastFix.lng

\* witness of C1: a tick submitted a snapshot after the second GPS update
C1_Witness ==
    /\ lastEvent.type = "tick" /\ lastEvent.submitted
    /\ fixClock = 2
    /\ LastEntry.latitude = GpsCoords(2).lat

\* C2: while the remote insert of an entry is still pending, the caller
\* already holds the entry (it is in logs) with status 'local_simulation'.
C2_ReturnedBeforeInsert ==
    \A id \in saves :
        \E i \in 1..Len(logs) : logs[i].id = id /\ logs[i].status = "local_simulation"

\* C3: for each submitted snapshot exactly one remote insert is issued; the
\* status is 'synced' exactly when that insert succeeded and stays
\* 'local_simulation' when it returned an error or threw; nothing is retried.
C3_OneInsertNoRetry ==
    /\ Len(insertCount) = Len(entries)
    /\ \A id \in 1..Len(entries) : insertCount[id] = 1
    /\ \A id \in saves : entries[id].status = "local_simulation"
    /\ lastEvent.type = "insertSettled" =>
          entries[lastEvent.entry].status =
              (IF lastEvent.outcome = "ok" THEN "synced" ELSE "local_simulation")
    /\ Cardinality({id \in 1..Len(entries) : entries[id].status = "synced"}) = Len(user_locations)

\* witness of C3: an insert failed and its entry stays unsynced, with a
\* single insert issued for it, while another entry was synced
C3_Witness ==
    /\ lastEvent.type = "insertSettled" /\ lastEvent.outcome \in {"error", "throw"}
    /\ entries[lastEvent.entry].status = "local_simulation"
    /\ insertCount[lastEvent.entry] = 1
    /\ \E id \in 1..Len(entries) : entries[id].status = "synced"

\* C4: a location error moves the state to 'denied' if and only if its code
\* is 1; any other error (timeout, position unavailable, and code 0 of a
\* missing geolocation reported during startTracking) leaves the state
\* 'tracking', the subscriptions and the timers running, and a later fix can
\* still be delivered.
C4_OnlyPermissionDenialIsFatal ==
    /\ [][lastEvent'.type = "geoError" =>
            /\ lastEvent'.code = 1 => permissionState' = "denied"
            /\ lastEvent'.code # 1 =>
                  /\ permissionState' = permissionState
                  /\ watches' = watches /\ timers' = timers
                  /\ (fixClock < MaxFix /\ Len(entries) < MaxRecords)
                        => \A w \in watches : ENABLED GpsFix(w)]_vars
    /\ [][(lastEvent'.type = "started" /\ ~geoSupported) =>
            /\ permissionState' = "tracking"
            /\ \E t \in timers' : t.id = captureIntervalRef']_vars

\* witness of C4: a timeout was reported while tracking and the subscription
\* and the timer are still there
C4_Witness ==
    /\ lastEvent.type = "geoError" /\ lastEvent.code = 3
    /\ permissionState = "tracking"
    /\ \E w \in watches : w.id = watchIdRef
    /\ \E t \in timers : t.id = captureIntervalRef

C6_CleanupReleasesEverything ==
    lastEvent.type = "cleanup" => (watches = {} /\ timers = {} /\ streams = {})

(***************************************************************************)
(* SpecIpLive: getIpLocation with its own steps scheduled fairly.  The    *)
(* steps of the function itself (the call, the top of the loop) always    *)
(* run; the settling of fetch(provider.url) is the network's step and the *)
(* code attaches no timer or abort signal to it, so nothing forces it.    *)
(***************************************************************************)
SpecIpLive == SpecIp /\ WF_vars(IpCall) /\ WF_vars(IpRequest)

\* C11: getIpLocation always eventually returns, even when a provider never
\* responds.
C11_AlwaysReturns == <>(ipPc = "returned")

(***************************************************************************)
(* AdminPanel: the two consolidations of the logs prop.  Both are useMemo  *)
(* values, recomputed from logs on every change of it, so they are state  *)
(* functions of logs here.                                                 *)
(*   processedLogs - the de-duplicated activity feed (newest first)       *)
(*   devices       - the per-device groups                                *)
(***************************************************************************)
MaxLogs == 3        \* records in the logs prop

\* JSON null as a JavaScript value (typeof null === 'object')
JsNull == <<"object", "null">>

\* values that are falsy in `x || y` and `if (x)`
Falsy(v) == v \in {"", "null", UNDEFINED}

\* ToNumber as the arithmetic of calculateDistance applies it: null is 0
ToNumber(v) == IF v = JsNull THEN "0" ELSE v[2]

\* the positions the records of the model carry
Jakarta == [latitude |-> JsNum("-6.2088"), longitude |-> JsNum("106.8456")]
North556m == [latitude |-> JsNum("-6.2038"), longitude |-> JsNum("106.8456")]
Near8m == [latitude |-> JsNum("-6.20885"), longitude |-> JsNum("106.84565")]
NoLatitude == [latitude |-> JsNull, longitude |-> JsNum("106.8456")]
Positions == {Jakarta, North556m, Near8m, NoLatitude}

PointIndex(lat, lon) ==
    CASE lat = "-6.2088" /\ lon = "106.8456" -> 1
      [] lat = "-6.2038" /\ lon = "106.8456" -> 2
      [] lat = "-6.20885" /\ lon = "106.84565" -> 3
      [] lat = "0" /\ lon = "106.8456" -> 4

\* R * c of calculateDistance for each pair of the points above, evaluated in
\* double arithmetic exactly as written in the source and given in metres,
\* rounded to the metre (row: first point, column: second point)
HaversineMetres ==
    << <<0, 556, 8, 690387>>,
       <<556, 0, 562, 689831>>,
       <<8, 562, 0, 690393>>,
       <<690387, 689831, 690393, 0>> >>

(***************************************************************************)
(* calculateDistance for whole-degree coordinates: the formula of the     *)
(* source evaluated in fixed-point arithmetic with four decimal digits.   *)
(* Rounding is towards zero, so that, as in IEEE double arithmetic,       *)
(* (-x) * y = -(x * y) and x * y = y * x hold exactly; Math.sin is odd    *)
(* and Math.cos is even, as in the fdlibm routines the engines use.       *)
(***************************************************************************)
FixedOne == 10000        \* the number 1
PiFixed == 31416         \* Math.PI

\* x / d rounded towards zero
QuotientOf(x, d) == IF x >= 0 THEN x \div d ELSE -((-x) \div d)

\* product and quotient of two fixed-point numbers
Times4(x, y) == QuotientOf(x * y, FixedOne)
Over4(x, y) == QuotientOf(x * FixedOne, y)

Magnitude(x) == IF x >= 0 THEN x ELSE -x

\* the whole-degree coordinates of the model, as numbers
Degrees(text) ==
    CASE text = "0" -> 0 [] text = "45" -> 45 [] text = "-60" -> -60
      [] text = "-6" -> -6 [] text = "90" -> 90 [] text = "107" -> 107

\* deg * (Math.PI / 180), deg in whole degrees
deg2rad(deg) == QuotientOf(deg * 174533, 1000)

\* x - x^3/3! + x^5/5! - x^7/7! for 0 <= x <= PI/2
SineSeries(x) ==
    LET x2 == Times4(x, x)
        t3 == QuotientOf(Times4(x, x2), 6)
        t5 == QuotientOf(Times4(t3, x2), 20)
        t7 == QuotientOf(Times4(t5, x2), 42)
    IN x - t3 + t5 - t7

\* Math.sin(x) for -PI <= x <= PI
MathSin(x) ==
    LET m == Magnitude(x)
        s == IF 2 * m > PiFixed THEN SineSeries(PiFixed - m) ELSE SineSeries(m)
    IN IF x < 0 THEN -s ELSE s

\* Math.cos(x) for -PI/2 <= x <= PI/2
MathCos(x) == SineSeries(QuotientOf(PiFixed, 2) - Magnitude(x))

\* Math.sqrt(v) for 0 <= v <= 1: the largest r with r * r <= v (bisection)
RECURSIVE SqrtBetween(_, _, _)
SqrtBetween(v, lo, hi) ==
    IF hi - lo <= 1 THEN lo
    ELSE LET mid == (lo + hi) \div 2
         IN IF mid * mid <= v * FixedOne THEN SqrtBetween(v, mid, hi)
            ELSE SqrtBetween(v, lo, mid)
MathSqrt(v) == SqrtBetween(v, 0, FixedOne + 1)

\* atan(t) for 0 <= t <= 1: the argument is halved once by
\* atan(t) = 2 atan(t / (1 + sqrt(1 + t^2))), then t - t^3/3 + t^5/5 - t^7/7
ArcTan(t) ==
    LET root == 2 * MathSqrt(QuotientOf(FixedOne + Times4(t, t), 4))
        u == Over4(t, FixedOne + root)
        u2 == Times4(u, u)
        u3 == Times4(u2, u)
        u5 == Times4(u3, u2)
        u7 == Times4(u5, u2)
    IN 2 * (u - QuotientOf(u3, 3) + QuotientOf(u5, 5) - QuotientOf(u7, 7))

\* Math.atan2(y, x) for y >= 0, x >= 0, not both 0
MathAtan2(y, x) ==
    IF y <= x THEN ArcTan(Over4(y, x))
    ELSE QuotientOf(PiFixed, 2) - ArcTan(Over4(x, y))

HaversineA_firstLatitudeTwice(lat1, lat2, dLat, dLon) ==
    Times4(MathSin(QuotientOf(dLat, 2)), MathSin(QuotientOf(dLat, 2)))
      + Times4(Times4(Times4(MathCos(deg2rad(lat1)), MathCos(deg2rad(lat1))),
                      MathSin(QuotientOf(dLon, 2))),
               MathSin(QuotientOf(dLon, 2)))

\* const a = Math.sin(dLat / 2) * Math.sin(dLat / 2) +
\*           Math.cos(deg2rad(lat1)) * Math.cos(deg2rad(lat2)) *
\*           Math.sin(dLon / 2) * Math.sin(dLon / 2)
HaversineA(lat1, lat2, dLat, dLon) ==
    Times4(MathSin(QuotientOf(dLat, 2)), MathSin(QuotientOf(dLat, 2)))
      + Times4(Times4(Times4(MathCos(deg2rad(lat1)), MathCos(deg2rad(lat2))),
                      MathSin(QuotientOf(dLon, 2))),
               MathSin(QuotientOf(dLon, 2)))

\* Radius of the earth in km
R == 6371

\* the body of calculateDistance for whole degrees; the result (R * c) is
\* given in metres
HaversineWholeDegrees(lat1, lon1, lat2, lon2) ==
    LET dLat == deg2rad(lat2 - lat1)
        dLon == deg2rad(lon2 - lon1)
        a == HaversineA(lat1, lat2, dLat, dLon)
        c == 2 * MathAtan2(MathSqrt(a), MathSqrt(FixedOne - a))
    IN QuotientOf(R * c, 10)

InTable(lat, lon) ==
    <<lat, lon>> \in {<<"-6.2088", "106.8456">>, <<"-6.2038", "106.8456">>,
                      <<"-6.20885", "106.84565">>, <<"0", "106.8456">>}

\* calculateDistance(lat1, lon1, lat2, lon2), in metres: the points of the
\* table lie closer together than four digits resolve
calculateDistance(lat1, lon1, lat2, lon2) ==
    IF InTable(ToNumber(lat1), ToNumber(lon1)) /\ InTable(ToNumber(lat2), ToNumber(lon2))
    THEN HaversineMetres[PointIndex(ToNumber(lat1), ToNumber(lon1))]
                        [PointIndex(ToNumber(lat2), ToNumber(lon2))]
    ELSE HaversineWholeDegrees(Degrees(ToNumber(lat1)), Degrees(ToNumber(lon1)),
                               Degrees(ToNumber(lat2)), Degrees(ToNumber(lon2)))

\* distKm > 0.05, in metres
DedupThreshold == 50

SortRank_tiesReversed(key, dir, i) ==
    1 + Cardinality({j \in 1..Len(key) :
                        \/ dir * (key[j] - key[i]) < 0
                        \/ key[j] = key[i] /\ j > i})

\* [...seq].sort((a, b) => key(a) - key(b)) for dir = 1 and key(b) - key(a)
\* for dir = -1, key[i] being the key of seq[i]; Array.prototype.sort is
\* stable, so records with equal keys keep their order
SortRank(key, dir, i) ==
    1 + Cardinality({j \in 1..Len(key) :
                        \/ dir * (key[j] - key[i]) < 0
                        \/ key[j] = key[i] /\ j < i})
SortedBy(seq, key, dir) ==
    [k \in 1..Len(seq) |-> seq[CHOOSE i \in 1..Len(seq) : SortRank(key, dir, i) = k]]

\* new Date(log.created_at).getTime() of every record of a list
Times(seq) == [i \in 1..Len(seq) |-> seq[i].created_at]

\* const ip = log.ip_address || 'Unknown'
TrackedIp(log) == IF Falsy(log.ip_address) THEN "Unknown" ELSE log.ip_address

KeepCondition_distanceOnly(distKm, log) == distKm > DedupThreshold

\* if (distKm > 0.05 || log.image_data)
KeepCondition(distKm, log) == distKm > DedupThreshold \/ ~Falsy(log.image_data)

\* ipTracker.set(ip, {lat: log.latitude, lng: log.longitude})
TrackerSet(ipTracker, ip, log) ==
    [k \in DOMAIN ipTracker \cup {ip} |->
        IF k = ip THEN [lat |-> log.latitude, lng |-> log.longitude] ELSE ipTracker[k]]

\* the for loop of processedLogs from record i on
RECURSIVE DedupLoop(_, _, _, _)
DedupLoop(sorted, i, result, ipTracker) ==
    IF i > Len(sorted) THEN [result |-> result, ipTracker |-> ipTracker]
    ELSE LET log == sorted[i]
             ip == TrackedIp(log)
         IN IF ip \notin DOMAIN ipTracker
            THEN DedupLoop(sorted, i + 1, Append(result, log), TrackerSet(ipTracker, ip, log))
            ELSE LET lastLoc == ipTracker[ip]
                     distKm == calculateDistance(log.latitude, log.longitude,
                                                 lastLoc.lat, lastLoc.lng)
                 IN IF KeepCondition(distKm, log)
                    THEN DedupLoop(sorted, i + 1, Append(result, log),
                                   TrackerSet(ipTracker, ip, log))
                    ELSE DedupLoop(sorted, i + 1, result, ipTracker)

\* the useMemo body of processedLogs for a logs list
Dedup(list) == DedupLoop(SortedBy(list, Times(list), -1), 1, <<>>, <<>>)

processedLogs == Dedup(logs).result
\* groups[log.device_id] = {...}: the group a device gets at its first record
NewGroup(log) ==
    [device_id |-> log.device_id, latest_log |-> log, history |-> <<>>, images |-> <<>>,
     ip_address |-> TrackedIp(log), device_info |-> log.device_info]

LatestAfter_keepFirst(prev, log) == prev

\* groups[log.device_id].latest_log = log
LatestAfter(prev, log) == log

HistoryAfter_latestOnly(history, log) == <<log>>

\* groups[log.device_id].history.push(log)
HistoryAfter(history, log) == Append(history, log)

\* the forEach of devices from record i on; groups is kept in the order the
\* keys were created, which is the order Object.values lists them in
RECURSIVE GroupLoop(_, _, _)
GroupLoop(sortedLogs, i, groups) ==
    IF i > Len(sortedLogs) THEN groups
    ELSE LET log == sortedLogs[i]
             known == \E k \in 1..Len(groups) : groups[k].device_id = log.device_id
             g == IF known THEN groups ELSE Append(groups, NewGroup(log))
             k == CHOOSE n \in 1..Len(g) : g[n].device_id = log.device_id
         IN GroupLoop(sortedLogs, i + 1,
                [g EXCEPT ![k].latest_log = LatestAfter(@, log),
                          ![k].history = HistoryAfter(@, log),
                          ![k].images = IF Falsy(log.image_data) THEN @
                                        ELSE Append(@, [url |-> log.image_data,
                                                        timestamp |-> log.created_at]),
                          ![k].device_info = IF Falsy(log.device_info) THEN @
                                             ELSE log.device_info])

PresentGroups_creationOrder(groups) == groups

\* Object.values(groups).sort((a, b) => b.latest_log.created_at - a.latest_log.created_at)
PresentGroups(groups) ==
    SortedBy(groups, [k \in 1..Len(groups) |-> groups[k].latest_log.created_at], -1)

\* the useMemo body of devices for a logs list
Grouping(list) == PresentGroups(GroupLoop(SortedBy(list, Times(list), 1), 1, <<>>))

devices == Grouping(logs)

(***************************************************************************)
(* SpecPanel: the admin route receives rows over the insert channel and   *)
(* AdminPanel consolidates them.  Rows come from any writer of the table: *)
(* device user_a moves between the positions, changes network and camera, *)
(* device user_b reports from one place.                                   *)
(***************************************************************************)
Timestamps == {1, 2, 3}

PanelPayloads ==
    {[latitude |-> p.latitude, longitude |-> p.longitude, device_id |-> "user_a",
      ip_address |-> ip, image_data |-> img, device_info |-> DeviceInfo]
        : p \in Positions, ip \in {"203.0.113.7", "Unknown", "null"},
          img \in {"data:image/jpeg", "null"}}
    \cup {[latitude |-> Jakarta.latitude, longitude |-> Jakarta.longitude,
           device_id |-> "user_b", ip_address |-> "203.0.113.7", image_data |-> "null",
           device_info |-> DeviceInfo]}

\* payload.new of an INSERT notification: the row with its id and created_at
PanelRows(id) ==
    {[id |-> id, latitude |-> p.latitude, longitude |-> p.longitude,
      device_id |-> p.device_id, ip_address |-> p.ip_address, image_data |-> p.image_data,
      device_info |-> p.device_info, created_at |-> t] : p \in PanelPayloads, t \in Timestamps}

\* the admin route after its effect ran against an empty table: the bulk
\* fetch was applied and the channel is subscribed
InitPanel ==
    /\ IpInit
    /\ mounted = TRUE /\ deviceId \in DeviceIds /\ isAdminRoute = TRUE
    /\ permissionState = "idle" /\ location = NULL /\ currentIp = "" /\ logs = <<>>
    /\ watchIdRef = NullRef /\ captureIntervalRef = NullRef /\ streamRef = NullRef
    /\ geoSupported = TRUE /\ ipFetch = "none"
    /\ starts = {} /\ watches = {} /\ timers = {} /\ streams = {}
    /\ nextId = 1 /\ lastFix = NULL /\ fixClock = 0
    /\ saves = {} /\ entries = <<>> /\ insertCount = <<>> /\ localWrite = <<>>
    /\ lastEvent = [type |-> "fetchApplied"]
    /\ user_locations = <<>> /\ channel = "subscribed" /\ notifications = <<>>
    /\ fetchHistory = [pc |-> "done"]

\* a row is inserted into the table and the channel's INSERT handler runs for
\* it: setLogs(prev => [newLog, ...prev]), and AdminPanel renders the new logs
RowNotified(newRecord) ==
    /\ channel = "subscribed"
    /\ Len(logs) < MaxLogs
    /\ user_locations' = Append(user_locations, newRecord)
    /\ logs' = LogsAfterInsert(NewLog(newRecord))
    /\ lastEvent' = [type |-> "insertNotified", id |-> newRecord.id]
    /\ UNCHANGED <<channel, notifications, fetchHistory>>
    /\ UNCHANGED <<ipVars, trackVars>>

NextPanel == \E newRecord \in PanelRows(Len(logs) + 1) : RowNotified(newRecord)

SpecPanel == InitPanel /\ [][NextPanel]_vars

(***************************************************************************)
(* Claims about AdminPanel (SpecPanel).                                    *)
(***************************************************************************)
HasFiniteCoordinates(log) == IsFiniteNumber(log.latitude) /\ IsFiniteNumber(log.longitude)

HasImage(log) == log.image_data = "data:image/jpeg"

\* the records of a list that carry the ip address ip, in the list's order
OfIp(seq, ip) == LET Carries(r) == r.ip_address = ip IN SelectSeq(seq, Carries)

NewestFirst(seq) == SortedBy(seq, Times(seq), -1)

\* the records the rule of C12 keeps of the records of one ip (newest
\* first) from record i on, ref being the current reference point
RECURSIVE KeptOfIp(_, _, _)
KeptOfIp(seq, i, ref) ==
    IF i > Len(seq) THEN <<>>
    ELSE IF \/ i = 1
            \/ calculateDistance(seq[i].latitude, seq[i].longitude,
                                 ref.latitude, ref.longitude) > 50
            \/ HasImage(seq[i])
         THEN <<seq[i]>> \o KeptOfIp(seq, i + 1, seq[i])
         ELSE KeptOfIp(seq, i + 1, ref)

KnownIps == {"203.0.113.7"}

\* C12: for every known ip whose records all have finite coordinates, the
\* records of that ip in the dedup output are, newest first: the newest one,
\* and each older one exactly when it lies more than 50 m from the last kept
\* record of that ip or carries an image.
C12_DedupPerIpReference ==
    \A ip \in KnownIps :
        (\A i \in 1..Len(logs) : logs[i].ip_address = ip => HasFiniteCoordinates(logs[i]))
            => OfIp(processedLogs, ip) = KeptOfIp(OfIp(NewestFirst(logs), ip), 1, Jakarta)

\* witness of C12: three records of one ip, newest first at the first point,
\* 8 m away without an image, 556 m away: the middle one is dropped, and with
\* an image instead it would be kept
C12_Witness ==
    /\ Len(logs) = 3
    /\ \A i \in 1..3 : logs[i].ip_address = "203.0.113.7" /\ logs[i].created_at = 4 - i
    /\ logs[1].latitude = Jakarta.latitude /\ logs[1].longitude = Jakarta.longitude
    /\ logs[2].latitude = Near8m.latitude /\ logs[2].longitude = Near8m.longitude
    /\ logs[3].latitude = North556m.latitude
    /\ ~HasImage(logs[2])
    /\ processedLogs = <<logs[1], logs[3]>>
    /\ Dedup(<<logs[1], [logs[2] EXCEPT !.image_data = "data:image/jpeg"]>>).result
          = <<logs[1], [logs[2] EXCEPT !.image_data = "data:image/jpeg"]>>

InList(seq, r) == \E k \in 1..Len(seq) : seq[k] = r

\* C13: in dedup mode every record whose ip is the unknown sentinel
\* ('Unknown', or no ip_address at all) appears in the output.
C13_UnknownIpAlwaysKept ==
    \A i \in 1..Len(logs) :
        logs[i].ip_address \in {"Unknown", "null"} => InList(processedLogs, logs[i])

\* C14: a record whose latitude or longitude is missing or not finite never
\* appears in the dedup output, never becomes an ip reference point, and never
\* appears in the history of a group or as its latest_log.
C14_InvalidCoordinatesRejected ==
    LET out == Dedup(logs)
        d == devices
    IN /\ \A k \in 1..Len(out.result) : HasFiniteCoordinates(out.result[k])
       /\ \A ip \in DOMAIN out.ipTracker :
             /\ IsFiniteNumber(out.ipTracker[ip].lat)
             /\ IsFiniteNumber(out.ipTracker[ip].lng)
       /\ \A g \in 1..Len(d) :
             /\ HasFiniteCoordinates(d[g].latest_log)
             /\ \A h \in 1..Len(d[g].history) : HasFiniteCoordinates(d[g].history[h])

DeviceIdsOf(seq) == {seq[i].device_id : i \in 1..Len(seq)}

\* the records of a list of one device, as a set (ids tell records apart)
OfDevice(seq, d) == {seq[i] : i \in {k \in 1..Len(seq) : seq[k].device_id = d}}

SeqToSet(seq) == {seq[i] : i \in 1..Len(seq)}

\* C15: grouping mode yields exactly one group per distinct device_id, and
\* the history of each group holds exactly the input records of that device,
\* each once.
C15_GroupsPartitionByDevice ==
    LET d == devices IN
        /\ Len(d) = Cardinality(DeviceIdsOf(logs))
        /\ {d[g].device_id : g \in 1..Len(d)} = DeviceIdsOf(logs)
        /\ \A g \in 1..Len(d) :
              /\ SeqToSet(d[g].history) = OfDevice(logs, d[g].device_id)
              /\ Len(d[g].history) = Cardinality(OfDevice(logs, d[g].device_id))
        /\ \A i \in 1..Len(logs) :
              Cardinality({g \in 1..Len(d) : InList(d[g].history, logs[i])}) = 1

\* witness of C15: two devices, one with two records and one with one
C15_Witness ==
    LET d == devices IN
        /\ Len(logs) = 3 /\ Len(d) = 2
        /\ \E g \in 1..2 : d[g].device_id = "user_a" /\ Len(d[g].history) = 2
        /\ \E g \in 1..2 : d[g].device_id = "user_b" /\ Len(d[g].history) = 1

\* C16: in every group, latest_log is a record of the group's history whose
\* created_at is the maximum of the history, in whatever order the records
\* stand in logs.
C16_LatestLogIsNewest ==
    LET d == devices IN
        \A g \in 1..Len(d) :
            /\ InList(d[g].history, d[g].latest_log)
            /\ \A h \in 1..Len(d[g].history) :
                  d[g].history[h].created_at <= d[g].latest_log.created_at

\* witness of C16: the newest record of a device arrived first (it stands
\* last in logs), older ones after it, and it is the latest_log
C16_Witness ==
    /\ Len(logs) = 3
    /\ \A i \in 1..3 : logs[i].device_id = "user_a"
    /\ logs[3].created_at = 3 /\ logs[1].created_at = 2 /\ logs[2].created_at = 1
    /\ devices[1].latest_log = logs[3]

\* C17: the groups are presented by latest_log.created_at descending.
C17_GroupsNewestFirst ==
    LET d == devices IN
        \A g \in 1..(Len(d) - 1) :
            d[g].latest_log.created_at >= d[g + 1].latest_log.created_at

\* witness of C17: the device whose first record is the older one has the
\* newer latest record and is presented first
C17_Witness ==
    LET d == devices IN
        /\ Len(logs) = 3 /\ Len(d) = 2
        /\ d[1].device_id = "user_a" /\ d[2].device_id = "user_b"
        /\ d[1].latest_log.created_at = 3 /\ d[2].latest_log.created_at = 2
        /\ \E i \in 1..3 : logs[i].device_id = "user_a" /\ logs[i].created_at = 1

\* C18 as stated: every tick of the timer while tracking with a last-known
\* position adds a snapshot made of that position, the frame captureImage
\* gives and the device info.
C18_EveryTickEmits ==
    [][(lastEvent'.type = "tick" /\ mounted /\ permissionState = "tracking"
            /\ location # NULL) =>
          /\ Len(entries') = Len(entries) + 1
          /\ entries'[Len(entries')].latitude = location.lat
          /\ entries'[Len(entries')].longitude = location.lng]_vars

\* C18 as amended: every tick of the timer while tracking whose last-known
\* position is a GPS fix adds a snapshot made of that position, the frame
\* captureImage gives (none without a live stream) and the device info,
\* whether or not the position changed; the position itself is left as it
\* was, so a tick right after a tick repeats the position of the one before.
C18_TickEmitsGpsPosition ==
    [][(lastEvent'.type = "tick" /\ mounted /\ permissionState = "tracking"
            /\ location # NULL /\ location.source = "gps") =>
          /\ Len(entries') = Len(entries) + 1
          /\ entries'[Len(entries')].latitude = location.lat
          /\ entries'[Len(entries')].longitude = location.lng
          /\ entries'[Len(entries')].image_data = CaptureImage
          /\ entries'[Len(entries')].device_info = DeviceInfo
          /\ location' = location
          /\ (lastEvent.type = "tick" /\ lastEvent.submitted) =>
                /\ entries'[Len(entries')].latitude = LastEntry.latitude
                /\ entries'[Len(entries')].longitude = LastEntry.longitude]_vars

\* witness of C18: one GPS fix, then two ticks; the two ticks' snapshots
\* carry the position of the fix
C18_Witness ==
    /\ lastEvent.type = "tick" /\ lastEvent.submitted
    /\ mounted /\ permissionState = "tracking"
    /\ fixClock = 1 /\ Len(entries) = 3
    /\ entries[2].latitude = lastFix.lat /\ entries[3].latitude = lastFix.lat
    /\ entries[2].longitude = entries[3].longitude

\* C19: a LogEntry changes in one way only: its status goes from
\* 'local_simulation' to 'synced', in the step in which its insert succeeds
\* and in every such step; id, latitude, longitude, device_id and created_at
\* stay as created, and a new entry starts as 'local_simulation'.
C19_StatusOnlyLocalToSynced ==
    [][/\ Len(entries') >= Len(entries)
       /\ \A id \in 1..Len(entries) :
             /\ entries'[id].id = entries[id].id
             /\ entries'[id].latitude = entries[id].latitude
             /\ entries'[id].longitude = entries[id].longitude
             /\ entries'[id].device_id = entries[id].device_id
             /\ entries'[id].created_at = entries[id].created_at
             /\ entries'[id].status # entries[id].status =>
                   /\ entries[id].status = "local_simulation"
                   /\ entries'[id].status = "synced"
                   /\ lastEvent' = [type |-> "insertSettled", entry |-> id, outcome |-> "ok"]
       /\ (lastEvent'.type = "insertSettled" /\ lastEvent'.outcome = "ok") =>
             /\ entries[lastEvent'.entry].status = "local_simulation"
             /\ entries'[lastEvent'.entry].status = "synced"
       /\ \A id \in (Len(entries) + 1)..Len(entries') :
             entries'[id].status = "local_simulation"
       /\ \A i \in 1..Len(logs') : logs'[i] = entries'[logs'[i].id]]_vars

\* witness of C19: both entries went through their inserts; the first is
\* synced, the second stays local, and both are in logs as created
C19_Witness ==
    /\ Len(entries) = 2 /\ saves = {} /\ Len(logs) = 2
    /\ entries[1].status = "synced" /\ entries[2].status = "local_simulation"
    /\ entries[1].latitude = GpsCoords(1).lat /\ entries[1].id = 1

\* C20: saveLocationToBackend completes with the LogEntry whatever the
\* outcomes of the local write and of the insert are: once the insert has
\* settled the caller holds the entry; the settling of the local write
\* changes no entry, issues no insert and no second local request; every
\* entry has one insert issued whatever became of its local write.
C20_FailuresNeverPropagate ==
    /\ [][lastEvent'.type = "insertSettled" =>
             /\ lastEvent'.entry \notin saves'
             /\ Len(logs') = Len(logs) + 1
             /\ logs'[1] = entries'[lastEvent'.entry]
             /\ localWrite' = localWrite /\ insertCount' = insertCount]_vars
    /\ [][lastEvent'.type = "localWriteSettled" =>
             /\ entries' = entries /\ insertCount' = insertCount
             /\ saves' = saves /\ logs' = logs
             /\ Len(localWrite') = Len(localWrite)]_vars
    /\ [](/\ Len(localWrite) = Len(entries) /\ Len(insertCount) = Len(entries)
          /\ \A id \in 1..Len(entries) : insertCount[id] = 1)

\* witness of C20: the local write failed and the insert threw, and the
\* caller holds the entry, unsynced
C20_Witness ==
    /\ lastEvent.type = "insertSettled" /\ lastEvent.outcome = "throw"
    /\ localWrite[lastEvent.entry] = "failed"
    /\ logs[1] = entries[lastEvent.entry]
    /\ logs[1].status = "local_simulation"
    /\ insertCount[lastEvent.entry] = 1

(***************************************************************************)
(* Claims about the 'denied' state and the resources of the client route. *)
(***************************************************************************)
\* C21: the state leaves 'denied' only at the end of a startTracking call
\* that was made while the state was 'denied'; no tick, GPS callback, camera
\* answer of an earlier call or network response moves it out of 'denied'.
C21_DeniedUntilNewStart ==
    [][(permissionState = "denied" /\ permissionState' # "denied") =>
          /\ lastEvent'.type = "started"
          /\ \E s \in starts : s \notin starts' /\ s.render.permissionState = "denied"]_vars

\* C22: only a location error with code 1 is shown to the user, and it is
\* shown once per failed startTracking attempt: while a single startTracking
\* call has been made, a report is made only in the step that takes the state
\* from 'tracking' to 'denied', never again by a later error callback.
C22_FatalErrorShownOnce ==
    [][(lastEvent'.type = "geoError" /\ lastEvent'.alert) =>
          /\ lastEvent'.code = 1
          /\ nextId = 2 => (permissionState = "tracking" /\ permissionState' = "denied")]_vars

\* C23: the device id never changes, and every record submitted, by whichever
\* startTracking call, GPS update or tick, carries it.
C23_OneDeviceIdPerSession ==
    /\ [][deviceId' = deviceId]_vars
    /\ [](\A i \in 1..Len(entries) : entries[i].device_id = deviceId)
    /\ [](\A i, j \in 1..Len(entries) : entries[i].device_id = entries[j].device_id)

\* witness of C23: three records, submitted by GPS updates and ticks, after
\* two startTracking calls
C23_Witness ==
    /\ Len(entries) = 3 /\ nextId = 3 /\ starts = {}
    /\ fixClock = 2
    /\ lastEvent.type = "tick" /\ lastEvent.submitted
    /\ \A i \in 1..3 : entries[i].device_id = "user_a"

(***************************************************************************)
(* SpecDistance: the admin route receives rows from places whole degrees  *)
(* apart (all within one hemisphere), and AdminPanel's processedLogs      *)
(* measures them against each other with calculateDistance.               *)
(***************************************************************************)
GridLatitudes == {"-60", "-6", "0", "45"}
GridLongitudes == {"0", "90", "107"}

DistanceRows(id) ==
    {[id |-> id, latitude |-> JsNum(lat), longitude |-> JsNum(lon),
      device_id |-> "user_a", ip_address |-> "203.0.113.7", image_data |-> "null",
      device_info |-> DeviceInfo, created_at |-> id]
        : lat \in GridLatitudes, lon \in GridLongitudes}

NextDistance == \E newRecord \in DistanceRows(Len(logs) + 1) : RowNotified(newRecord)

SpecDistance == InitPanel /\ [][NextDistance]_vars

DistanceBetween(a, b) == calculateDistance(a.latitude, a.longitude, b.latitude, b.longitude)

\* C24: calculateDistance(P, P) = 0 and calculateDistance(A, B) =
\* calculateDistance(B, A), for the positions of any two records received and
\* for the positions of the table.
C24_DistanceSymmetricAndZero ==
    /\ \A i, j \in 1..Len(logs) :
          /\ DistanceBetween(logs[i], logs[j]) = DistanceBetween(logs[j], logs[i])
          /\ DistanceBetween(logs[i], logs[i]) = 0
    /\ \A p, q \in Positions :
          /\ DistanceBetween(p, q) = DistanceBetween(q, p)
          /\ DistanceBetween(p, p) = 0

\* witness of C24: two records at one place and a third on another latitude
\* and longitude, some 15 000 km away
C24_Witness ==
    /\ Len(logs) = 3
    /\ logs[1].latitude = JsNum("-60") /\ logs[1].longitude = JsNum("0")
    /\ logs[2].latitude = JsNum("-60") /\ logs[2].longitude = JsNum("0")
    /\ logs[3].latitude = JsNum("45") /\ logs[3].longitude = JsNum("107")
    /\ DistanceBetween(logs[1], logs[2]) = 0
    /\ DistanceBetween(logs[1], logs[3]) > 15000000
    /\ DistanceBetween(logs[3], logs[1]) = DistanceBetween(logs[1], logs[3])
    /\ Len(processedLogs) = 2


(***************************************************************************)
(* Resources held by the client route                                      *)
(***************************************************************************)

\* C25: at any time every GPS subscription, capture timer and camera stream
\* that is still active is the one its ref points to, so at most one of each
\* is held and one cleanup releases everything, whatever sequence of
\* startTracking calls was made.
C25_ResourcesAreTheOnesRefsPointTo ==
    /\ \A w \in watches : w.id = watchIdRef
    /\ \A t \in timers : t.id = captureIntervalRef
    /\ \A s \in streams : s = streamRef

\* C26: with a single startTracking call and geolocation present, once the
\* cleanup has run and the call has finished no subscription, timer or
\* stream is active, and no snapshot is submitted after the cleanup.
C26_NothingRunsAfterStop ==
    /\ []((~mounted /\ starts = {} /\ nextId = 2 /\ geoSupported) =>
            (watches = {} /\ timers = {} /\ streams = {}))
    /\ [][(~mounted /\ nextId = 2) => entries' = entries]_vars

\* C27: with a single startTracking call that has finished, the capture
\* timer of that attempt submits no snapshot while the state is and stays
\* 'denied'.
C27_NoSnapshotWhileDenied ==
    [][(permissionState = "denied" /\ permissionState' = "denied"
          /\ starts = {} /\ nextId = 2 /\ lastEvent'.type = "tick")
         => entries' = entries]_vars


\* C29: an IP position that resolves late never replaces a stored position:
\* the step of the IP response leaves a position that is already set as it
\* is, a last-known position of source 'gps' stays of source 'gps' in every
\* step, and every snapshot submitted carries the position of the latest
\* GPS fix.
C29_LateIpNeverOverwrites ==
    /\ [][(lastEvent'.type = "ipResolved" /\ location # NULL) => location' = location]_vars
    /\ [][(location # NULL /\ location.source = "gps") =>
            (location' # NULL /\ location'.source = "gps")]_vars
    /\ [][Len(entries') > Len(entries) =>
            /\ lastFix' # NULL
            /\ entries'[Len(entries')].latitude = lastFix'.lat
            /\ entries'[Len(entries')].longitude = lastFix'.lng]_vars

\* the IP response arrived after a GPS fix and a snapshot, and the GPS
\* position is still the last-known position
C29_Witness ==
    /\ lastEvent.type = "ipResolved"
    /\ currentIp = "203.0.113.7"
    /\ lastFix # NULL /\ location = lastFix /\ location.source = "gps"
    /\ Len(entries) >= 1 /\ entries[Len(entries)].latitude = lastFix.lat


\* C28: no push-channel record is lost: a record that is in the logs list
\* of the admin route (every insert notification handled puts one there)
\* is still in the list after every later step, the step that applies the
\* response of the initial bulk fetch included.
C28_NoPushRecordLost ==
    [][\A i \in 1..Len(logs) : \E j \in 1..Len(logs') : logs'[j].id = logs[i].id]_vars


\* C30: dedup mode is idempotent: the dedup fold applied to its own output
\* returns exactly that output, every record kept once being kept again in
\* the same order.
C30_DedupIdempotent ==
    LET once == Dedup(logs).result IN Dedup(once).result = once

\* three records of one IP address, two of them with the same created_at
\* and both kept, the third dropped as a repeat; the fold applied again
\* keeps the same two in the same order
C30_Witness ==
    /\ Len(logs) = 3
    /\ \A i \in 1..3 : logs[i].ip_address = "203.0.113.7"
    /\ LET once == Dedup(logs).result IN
         /\ Len(once) = 2
         /\ once[1].created_at = once[2].created_at
         /\ once[1].id # once[2].id
         /\ Dedup(once).result = once

====
